---- MODULE Spec2Model ----
(***************************************************************************)
(* Model of the kubeview API route handlers (cmd/server/routes.go):        *)
(* routeScrapeData, routeGetNamespaces and routeStatus, together with the  *)
(* helpers redactCertificates, redactSecrets and filterSecrets.            *)
(*                                                                         *)
(* Byte slices and strings are sequences of one-character strings, so that *)
(* the certificate regular expression and strings.HasPrefix are computed   *)
(* character by character.                                                 *)
(***************************************************************************)
EXTENDS Integers, Sequences, FiniteSets, TLC

(***************************************************************************)
(* Bounds of the explored inputs.                                          *)
(***************************************************************************)
\* longest value, counted in pieces of PieceSet, stored under a map key
MaxPieces == 3
\* longest item list returned for one of the ten kinds that are not sanitized
MaxItems == 2
\* longest Secret list returned by the cluster API
MaxSecrets == 2
\* longest ConfigMap list returned by the cluster API
MaxConfigMaps == 2

(***************************************************************************)
(* Text helpers.                                                           *)
(***************************************************************************)
Dashes(n) == [i \in 1..n |-> "-"]

RECURSIVE Concat(_)
Concat(ss) == IF ss = <<>> THEN <<>> ELSE Head(ss) \o Concat(Tail(ss))

Min(S) == CHOOSE x \in S : \A y \in S : x <= y

\* The sequences over S of length at most n.
RECURSIVE SeqsUpTo(_, _)
SeqsUpTo(S, n) ==
    IF n = 0 THEN {<<>>}
    ELSE LET shorter == SeqsUpTo(S, n - 1)
         IN  shorter \cup {Append(q, x) : q \in {r \in shorter : Len(r) = n - 1}, x \in S}

IsDash(c) == c = "-"
NotDash(c) == c # "-"
\* \s of Go's regexp syntax: [\t\n\f\r ]
IsSpace(c) == c \in {" ", "\t", "\n", "\f", "\r"}

\* The character classes of the pattern: "-", \s and [^\-].
InClass(class, c) ==
    CASE class = "dash" -> IsDash(c)
      [] class = "space" -> IsSpace(c)
      [] class = "notdash" -> NotDash(c)

\* Length of the longest run of characters of the class starting at s[i].
RunLen(s, i, class) ==
    IF i > Len(s) THEN 0
    ELSE CHOOSE k \in 0..(Len(s) - i + 1) :
            /\ \A j \in i..(i + k - 1) : InClass(class, s[j])
            /\ (i + k > Len(s) \/ ~InClass(class, s[i + k]))

\* Case folding of the (?i) flag, for the letters of the pattern's words.
UpperOf ==
    [c \in {"b", "e", "g", "i", "n", "c", "r", "t", "f", "a", "d"} |->
        CASE c = "b" -> "B" [] c = "e" -> "E" [] c = "g" -> "G" [] c = "i" -> "I"
          [] c = "n" -> "N" [] c = "c" -> "C" [] c = "r" -> "R" [] c = "t" -> "T"
          [] c = "f" -> "F" [] c = "a" -> "A" [] c = "d" -> "D"]

Fold(c) == IF c \in DOMAIN UpperOf THEN UpperOf[c] ELSE c

(***************************************************************************)
(* redactCertificates: the pattern                                         *)
(*   (?i)-----+BEGIN\s+CERTIFICATE-----+[^\-]+-----+END\s+CERTIFICATE-----+*)
(* and ReplaceAll with the certificate sentinel.                           *)
(***************************************************************************)
WordBegin == <<"B", "E", "G", "I", "N">>
WordEnd == <<"E", "N", "D">>
WordCertificate == <<"C", "E", "R", "T", "I", "F", "I", "C", "A", "T", "E">>

\* "-----+" is four literal dashes followed by "-+": five dashes or more
MinDashes == 5

\* "__CERTIFICATE REDACTED__"
CertSentinel ==
    <<"_", "_">> \o WordCertificate \o <<" ", "R", "E", "D", "A", "C", "T", "E", "D", "_", "_">>

\* The literal word w, case-insensitively, at s[i]: the position after it, or 0.
MatchWord(s, i, w) ==
    IF /\ i >= 1
       /\ i + Len(w) - 1 <= Len(s)
       /\ \A j \in 1..Len(w) : Fold(s[i + j - 1]) = Fold(w[j])
    THEN i + Len(w)
    ELSE 0

\* A greedy repetition of a character class, at least min times, at s[i]: the
\* position after the run, or 0.  In the pattern every repetition is followed
\* by an element that cannot start with a character of the repeated class, so
\* a match takes the whole run and giving characters back never helps.
MatchRun(s, i, class, min) ==
    IF RunLen(s, i, class) >= min THEN i + RunLen(s, i, class) ELSE 0

\* The elements of the pattern, in order.
CertPattern ==
    <<"dashes", "BEGIN", "spaces", "CERTIFICATE", "dashes", "body",
      "dashes", "END", "spaces", "CERTIFICATE", "dashes">>

MatchElement(s, i, element) ==
    CASE element = "dashes" -> MatchRun(s, i, "dash", MinDashes)
      [] element = "spaces" -> MatchRun(s, i, "space", 1)
      [] element = "body" -> MatchRun(s, i, "notdash", 1)
      [] element = "BEGIN" -> MatchWord(s, i, WordBegin)
      [] element = "END" -> MatchWord(s, i, WordEnd)
      [] element = "CERTIFICATE" -> MatchWord(s, i, WordCertificate)

RECURSIVE MatchElements(_, _, _)
MatchElements(s, i, elements) ==
    IF i = 0 \/ elements = <<>> THEN i
    ELSE MatchElements(s, MatchElement(s, i, Head(elements)), Tail(elements))

\* The whole pattern anchored at s[i]: the position after the match, or 0.
MatchAt(s, i) == MatchElements(s, i, CertPattern)

\* regexp.ReplaceAll: the leftmost match at or after pos is replaced and the
\* search resumes right after it; text outside the matches is copied.
RECURSIVE ReplaceAllFrom(_, _)
ReplaceAllFrom(s, pos) ==
    LET starts == {i \in pos..Len(s) : MatchAt(s, i) # 0}
    IN  IF starts = {} THEN SubSeq(s, pos, Len(s))
        ELSE LET i == Min(starts)
             IN  SubSeq(s, pos, i - 1) \o CertSentinel \o ReplaceAllFrom(s, MatchAt(s, i))

\* Variant: only the first match is replaced (a ReplaceFirst).
redactCertificates_FirstOnly(data) ==
    LET starts == {i \in 1..Len(data) : MatchAt(data, i) # 0}
    IN  IF starts = {} THEN data
        ELSE SubSeq(data, 1, Min(starts) - 1) \o CertSentinel
                \o SubSeq(data, MatchAt(data, Min(starts)), Len(data))

redactCertificates(data) == ReplaceAllFrom(data, 1)

(***************************************************************************)
(* Values stored under map keys: concatenations of pieces.                 *)
(***************************************************************************)
\* "-----BEGIN CERTIFICATE-----"
BeginMark == Dashes(5) \o WordBegin \o <<" ">> \o WordCertificate \o Dashes(5)
\* "-----END CERTIFICATE-----"
EndMark == Dashes(5) \o WordEnd \o <<" ">> \o WordCertificate \o Dashes(5)
\* a PEM block without surrounding line breaks
CertBare == BeginMark \o <<"\n", "M", "I", "\n">> \o EndMark
\* a PEM block on lines of its own, lower case, six dashes, a tab after "begin"
CertLine ==
    <<"\n">> \o Dashes(6) \o <<"b", "e", "g", "i", "n", " ", "\t">>
        \o <<"c", "e", "r", "t", "i", "f", "i", "c", "a", "t", "e">> \o Dashes(5)
        \o <<"\n", "m", "i", "\n">>
        \o Dashes(5) \o <<"e", "n", "d", " ">>
        \o <<"c", "e", "r", "t", "i", "f", "i", "c", "a", "t", "e">> \o Dashes(6)
        \o <<"\n">>
TextPiece == <<"p", "w">>
DashPiece == <<"-">>

PieceSet == {CertBare, CertLine, BeginMark, EndMark, TextPiece, DashPiece}

Values == {Concat(q) : q \in SeqsUpTo(PieceSet, MaxPieces)}

(***************************************************************************)
(* Go slices and maps.  A slice is nil or holds elements; encoding/json    *)
(* writes a nil slice as null and any other slice as an array.  A map is a *)
(* function from its keys; ranging over a nil map visits nothing, as over  *)
(* an empty one.                                                           *)
(***************************************************************************)
NilSlice == [isNil |-> TRUE, elems |-> <<>>]
MkSlice(seq) == [isNil |-> FALSE, elems |-> seq]

EmptyMap == [k \in {} |-> <<>>]

(***************************************************************************)
(* scrapeData: the fields of the struct and their json tags.               *)
(***************************************************************************)
JsonTag ==
    [Pods |-> "pods", Services |-> "services", Endpoints |-> "endpoints",
     PersistentVolumes |-> "persistentvolumes",
     PersistentVolumeClaims |-> "persistentvolumeclaims",
     Deployments |-> "deployments", DaemonSets |-> "daemonsets",
     ReplicaSets |-> "replicasets", StatefulSets |-> "statefulsets",
     Ingresses |-> "ingresses", ConfigMaps |-> "configmaps", Secrets |-> "secrets"]

Kinds == DOMAIN JsonTag
OpaqueKinds == Kinds \ {"ConfigMaps", "Secrets"}

\* The list queries of routeScrapeData in the order they are issued.
QueryOrder ==
    <<"Pods", "Services", "Endpoints", "PersistentVolumes", "PersistentVolumeClaims",
      "ConfigMaps", "Secrets", "Deployments", "DaemonSets", "ReplicaSets",
      "StatefulSets", "Ingresses">>

(***************************************************************************)
(* filterSecrets and the predicate routeScrapeData passes to it.           *)
(***************************************************************************)
\* "sh.helm.release"
HelmPrefix ==
    <<"s", "h", ".", "h", "e", "l", "m", ".", "r", "e", "l", "e", "a", "s", "e">>

\* strings.HasPrefix
HasPrefix(s, prefix) ==
    Len(s) >= Len(prefix) /\ SubSeq(s, 1, Len(prefix)) = prefix

\* Variant: the name is compared with the marker instead of its prefix.
KeepSecret_WholeName(v) == v.name # HelmPrefix

KeepSecret(v) == ~HasPrefix(v.name, HelmPrefix)

\* The predicate f is a function from the Secrets it is applied to.
RECURSIVE FilterLoop(_, _, _)
FilterLoop(rest, f, newSlice) ==
    IF rest = <<>> THEN newSlice
    ELSE FilterLoop(Tail(rest), f,
                    IF f[Head(rest)] THEN Append(newSlice, Head(rest)) ELSE newSlice)

\* make([]Secret, 0) is not nil, whatever secretList is
filterSecrets(secretList, f) == MkSlice(FilterLoop(secretList.elems, f, <<>>))

\* func(v apiv1.Secret) bool { return !strings.HasPrefix(v.ObjectMeta.Name, ...) }
KeepSecretFunc(secretList) ==
    [v \in {secretList.elems[i] : i \in DOMAIN secretList.elems} |-> KeepSecret(v)]

\* Variant: each kept Secret is put in front of the ones kept before it.
HideHelmReleases_Prepend(secretList) ==
    LET kept == FilterLoop(secretList.elems, KeepSecretFunc(secretList), <<>>)
    IN  MkSlice([i \in DOMAIN kept |-> kept[Len(kept) + 1 - i]])

\* The call of filterSecrets in routeScrapeData.
HideHelmReleases(secretList) == filterSecrets(secretList, KeepSecretFunc(secretList))

(***************************************************************************)
(* redactSecrets and the ConfigMap loop of routeScrapeData.                *)
(***************************************************************************)
RedactMap(m) == [key \in DOMAIN m |-> redactCertificates(m[key])]

RedactSecret(secret) ==
    [secret EXCEPT !.data = RedactMap(@),
                   !.annotations = RedactMap(@),
                   !.stringData = RedactMap(@)]

redactSecrets(secrets) ==
    [secrets EXCEPT !.elems = [i \in DOMAIN @ |-> RedactSecret(@[i])]]

\* The loop variable is a copy of the item, but its maps are the item's maps:
\* the assignments to configmap.Data[key] reach the items of the list.
RedactConfigMap(configmap) ==
    [configmap EXCEPT !.data = RedactMap(@), !.binaryData = RedactMap(@)]

\* Variant: the redacted values are written to copies of the maps.
RedactConfigMaps_OnCopies(configmaps) == configmaps

RedactConfigMaps(configmaps) ==
    [configmaps EXCEPT !.elems = [i \in DOMAIN @ |-> RedactConfigMap(@[i])]]

(***************************************************************************)
(* json.Marshal of the scrapeData struct.  []byte values are written as    *)
(* base64 strings, strings as strings.                                     *)
(***************************************************************************)
Base64(bytes) == [b64 |-> bytes]
Base64Map(m) == [key \in DOMAIN m |-> Base64(m[key])]

MarshalItem(kind, obj) ==
    CASE kind = "Secrets" -> [obj EXCEPT !.data = Base64Map(@)]
      [] kind = "ConfigMaps" -> [obj EXCEPT !.binaryData = Base64Map(@)]
      [] OTHER -> obj

MarshalSlice(kind, slice) ==
    [null |-> slice.isNil,
     array |-> [i \in DOMAIN slice.elems |-> MarshalItem(kind, slice.elems[i])]]

MarshalScrapeData(scrapeResult) ==
    [tag \in {JsonTag[k] : k \in Kinds} |->
        LET k == CHOOSE kk \in Kinds : JsonTag[kk] = tag
        IN  MarshalSlice(k, scrapeResult[k])]

(***************************************************************************)
(* http.ResponseWriter: the header map, the status line and headers as     *)
(* sent, the body chunks, and the calls made on the writer.                *)
(***************************************************************************)
NewResponse ==
    [header |-> {}, wroteHeader |-> FALSE, code |-> 0, sent |-> {}, body |-> <<>>,
     calls |-> <<>>]

HeaderSet(r, key, value) ==
    [r EXCEPT !.header = {h \in @ : h[1] # key} \cup {<<key, value>>},
              !.calls = Append(@, "Header")]

HeaderAdd(r, key, value) ==
    [r EXCEPT !.header = @ \cup {<<key, value>>}, !.calls = Append(@, "Header")]

\* Only the first WriteHeader sends the status line and the header map.
WriteHeader(r, code) ==
    IF r.wroteHeader THEN r
    ELSE [r EXCEPT !.wroteHeader = TRUE, !.code = code, !.sent = r.header]

Write(r, chunk) ==
    LET started == WriteHeader(r, 200)
    IN  [started EXCEPT !.body = Append(@, chunk), !.calls = Append(@, "Write")]

\* http.Error: content type, nosniff, WriteHeader(code), the message as body
HttpError(r, message, code) ==
    LET h == {x \in r.header : x[1] \notin {"Content-Type", "X-Content-Type-Options"}}
                \cup {<<"Content-Type", "text/plain; charset=utf-8">>,
                      <<"X-Content-Type-Options", "nosniff">>}
        started == WriteHeader([r EXCEPT !.header = h], code)
    IN  [started EXCEPT !.body = Append(@, [kind |-> "error", doc |-> message]),
                        !.calls = Append(@, "Error")]

(***************************************************************************)
(* The cluster the list queries read: per kind, the objects in the order   *)
(* the API returns them.                                                   *)
(***************************************************************************)
OpaqueObjects == {"o1", "o2"}

\* "sh.helm.release.v1.foo.v1"
NameHelmRelease ==
    HelmPrefix \o <<".", "v", "1", ".", "f", "o", "o", ".", "v", "1">>
\* "db-creds"
NameDbCreds == <<"d", "b", "-", "c", "r", "e", "d", "s">>
\* "my.sh.helm.release": the marker is not at the start
NameInfix == <<"m", "y", ".">> \o HelmPrefix
\* "sh.helm.releas": one character short of the marker
NameShort == SubSeq(HelmPrefix, 1, Len(HelmPrefix) - 1)

SecretNames == {NameHelmRelease, HelmPrefix, NameDbCreds, NameInfix, NameShort}

LastApplied == "kubectl.kubernetes.io/last-applied-configuration"

SecretContents ==
    { [data |-> [k \in {"password"} |-> TextPiece],
       annotations |-> EmptyMap,
       stringData |-> EmptyMap],
      [data |-> [k \in {"tls.crt", "tls.key"} |->
                    IF k = "tls.crt" THEN CertBare ELSE TextPiece],
       annotations |-> [k \in {LastApplied, "note"} |->
                    IF k = LastApplied THEN TextPiece \o CertLine \o TextPiece
                    ELSE TextPiece],
       stringData |-> [k \in {"token"} |-> TextPiece \o CertBare]] }

MkSecret(name, content) ==
    [name |-> name, namespace |-> "default", annotations |-> content.annotations,
     data |-> content.data, stringData |-> content.stringData]

SecretObjects == {MkSecret(n, c) : n \in SecretNames, c \in SecretContents}

ConfigMapObjects ==
    { [name |-> "kube-root-ca.crt", namespace |-> "default",
       data |-> [k \in {"ca.crt", "note"} |->
                    IF k = "ca.crt" THEN TextPiece \o CertLine \o TextPiece \o CertBare
                    ELSE TextPiece],
       binaryData |-> EmptyMap],
      [name |-> "app-config", namespace |-> "default",
       data |-> EmptyMap,
       binaryData |-> [k \in {"bundle"} |-> CertBare \o DashPiece \o CertBare]] }

\* two objects of each kind that is not sanitized, no ConfigMap, no Secret
BaseCluster == [k \in Kinds |-> IF k \in OpaqueKinds THEN <<"o2", "o1">> ELSE <<>>]

\* one of the ten kinds that are not sanitized holds any list, the others a fixed one
ClustersAggregate ==
    { [k \in Kinds |->
        IF k = focus THEN items
        ELSE IF k \in OpaqueKinds THEN others
        ELSE <<>>] :
        focus \in OpaqueKinds,
        items \in SeqsUpTo(OpaqueObjects, MaxItems),
        others \in {<<>>, <<"o2", "o1">>} }

ClustersSecrets ==
    { [BaseCluster EXCEPT !.Secrets = l] : l \in SeqsUpTo(SecretObjects, MaxSecrets) }

ClustersConfigMaps ==
    { [BaseCluster EXCEPT !.ConfigMaps = l] :
        l \in SeqsUpTo(ConfigMapObjects, MaxConfigMaps) }

\* one Secret and one ConfigMap holding the same value under every map
ClustersValues ==
    { [BaseCluster EXCEPT
        !.Secrets = << [name |-> NameDbCreds, namespace |-> "default",
                        annotations |-> [k \in {LastApplied} |-> v],
                        data |-> [k \in {"password"} |-> v],
                        stringData |-> [k \in {"token"} |-> v]] >>,
        !.ConfigMaps = << [name |-> "app-config", namespace |-> "default",
                           data |-> [k \in {"ca.crt"} |-> v],
                           binaryData |-> [k \in {"bundle"} |-> v]] >>] :
        v \in Values }

Clusters == ClustersAggregate \cup ClustersSecrets \cup ClustersConfigMaps \cup ClustersValues

\* What a failed list query reports.
ErrorCodes == {"forbidden", "timeout"}
ApiError(what, code) == [query |-> what, code |-> code]

(***************************************************************************)
(* State.                                                                  *)
(***************************************************************************)
VARIABLES
    cluster,        \* the objects of the cluster, per kind
    nilWhenEmpty,   \* the client decodes a list without items to a nil Items slice
    handler,        \* the route handler serving the request
    pc,             \* the handler's position
    qi,             \* routeScrapeData: index in QueryOrder of the next list query
    lists,          \* routeScrapeData: Items of the lists fetched so far, per kind
    namespaces,     \* routeGetNamespaces: the list the query returned
    issued,         \* the list queries sent to the cluster API, in order
    failures,       \* the errors the cluster API returned, in order
    resp            \* the http.ResponseWriter

vars == <<cluster, nilWhenEmpty, handler, pc, qi, lists, namespaces, issued, failures, resp>>

NoLists == [k \in {} |-> NilSlice]

\* *NamespaceList: a nil pointer, or a list with its Items
NilNamespaceList == [isNilPointer |-> TRUE, Items |-> NilSlice]
NamespaceList(items) == [isNilPointer |-> FALSE, Items |-> items]
NoNamespaceList == NilNamespaceList

\* the namespaces of the cluster
NamespaceItems == <<"default", "kube-system">>

\* Items of a decoded list.  The decoder leaves Items nil when the response
\* carries no item (no "items" array, or a protobuf list without elements) and
\* makes an empty slice for "items": [].
Decode(items) == IF items = <<>> /\ nilWhenEmpty THEN NilSlice ELSE MkSlice(items)

Init ==
    /\ cluster \in Clusters
    /\ nilWhenEmpty \in BOOLEAN
    /\ handler = "none"
    /\ pc = "idle"
    /\ qi = 0
    /\ lists = NoLists
    /\ namespaces = NoNamespaceList
    /\ issued = <<>>
    /\ failures = <<>>
    /\ resp = NewResponse

(***************************************************************************)
(* routeScrapeData                                                         *)
(***************************************************************************)
ScrapeStart ==
    /\ pc = "idle"
    /\ handler' = "routeScrapeData"
    /\ pc' = "query"
    /\ qi' = 1
    /\ UNCHANGED <<cluster, nilWhenEmpty, lists, namespaces, issued, failures, resp>>

\* A list query that succeeds: the next query, or the sanitizing after the last.
QueryOk ==
    /\ pc = "query"
    /\ LET kind == QueryOrder[qi]
       IN  /\ issued' = Append(issued, kind)
           /\ lists' = (kind :> Decode(cluster[kind])) @@ lists
    /\ qi' = qi + 1
    /\ pc' = IF qi = Len(QueryOrder) THEN "respond" ELSE "query"
    /\ UNCHANGED <<cluster, nilWhenEmpty, handler, namespaces, failures, resp>>

\* Variant: the last list query has no return after http.Error; its list is
\* left without items.
QueryFail_NoReturnOnLast ==
    /\ pc = "query"
    /\ \E code \in ErrorCodes :
        LET kind == QueryOrder[qi]
            err == ApiError(kind, code)
        IN  /\ issued' = Append(issued, kind)
            /\ failures' = Append(failures, err)
            /\ resp' = HttpError(resp, err, 500)
            /\ lists' = IF qi = Len(QueryOrder) THEN (kind :> NilSlice) @@ lists ELSE lists
    /\ qi' = IF qi = Len(QueryOrder) THEN qi + 1 ELSE qi
    /\ pc' = IF qi = Len(QueryOrder) THEN "respond" ELSE "done"
    /\ UNCHANGED <<cluster, nilWhenEmpty, handler, namespaces>>

\* Variant: the failed query is issued again.
QueryFail_Retry ==
    /\ pc = "query"
    /\ Len(issued) < Len(QueryOrder)
    /\ \E code \in ErrorCodes :
        LET kind == QueryOrder[qi]
            err == ApiError(kind, code)
        IN  /\ issued' = Append(issued, kind)
            /\ failures' = Append(failures, err)
            /\ resp' = HttpError(resp, err, 500)
    /\ UNCHANGED <<cluster, nilWhenEmpty, handler, pc, qi, lists, namespaces>>

\* A list query that fails: log, http.Error with the error's message, return.
QueryFail ==
    /\ pc = "query"
    /\ \E code \in ErrorCodes :
        LET kind == QueryOrder[qi]
            err == ApiError(kind, code)
        IN  /\ issued' = Append(issued, kind)
            /\ failures' = Append(failures, err)
            /\ resp' = HttpError(resp, err, 500)
    /\ pc' = "done"
    /\ UNCHANGED <<cluster, nilWhenEmpty, handler, qi, lists, namespaces>>

\* The struct literal of routeScrapeData, after filtering and redaction.
ScrapeResult(fetched) ==
    LET secrets == redactSecrets(HideHelmReleases(fetched.Secrets))
        configmaps == RedactConfigMaps(fetched.ConfigMaps)
    IN  [k \in Kinds |->
            CASE k = "Secrets" -> secrets
              [] k = "ConfigMaps" -> configmaps
              [] OTHER -> fetched[k]]

\* Filter, redact, marshal, set the headers and write the body.  json.Marshal
\* does not fail on these types.
ScrapeRespond ==
    /\ pc = "respond"
    /\ LET body == [kind |-> "scrapeData", doc |-> MarshalScrapeData(ScrapeResult(lists))]
           r1 == HeaderSet(resp, "Access-Control-Allow-Origin", "*")
           r2 == HeaderAdd(r1, "Content-Type", "application/json")
       IN  resp' = Write(r2, body)
    /\ pc' = "done"
    /\ UNCHANGED <<cluster, nilWhenEmpty, handler, qi, lists, namespaces, issued, failures>>

(***************************************************************************)
(* routeGetNamespaces                                                      *)
(***************************************************************************)
NamespacesStart ==
    /\ pc = "idle"
    /\ handler' = "routeGetNamespaces"
    /\ pc' = "list"
    /\ UNCHANGED <<cluster, nilWhenEmpty, qi, lists, namespaces, issued, failures, resp>>

NamespacesListOk ==
    /\ pc = "list"
    /\ issued' = Append(issued, "Namespaces")
    /\ namespaces' = NamespaceList(MkSlice(NamespaceItems))
    /\ pc' = "marshal"
    /\ UNCHANGED <<cluster, nilWhenEmpty, handler, qi, lists, failures, resp>>

\* The query fails: log and http.Error, and the handler goes on (no return).
\* Beside the error the client hands back a list without items, or no list.
NamespacesListFail ==
    /\ pc = "list"
    /\ \E code \in ErrorCodes :
        LET err == ApiError("Namespaces", code)
        IN  /\ failures' = Append(failures, err)
            /\ resp' = HttpError(resp, err, 500)
    /\ \E result \in {NilNamespaceList, NamespaceList(NilSlice)} : namespaces' = result
    /\ issued' = Append(issued, "Namespaces")
    /\ pc' = "marshal"
    /\ UNCHANGED <<cluster, nilWhenEmpty, handler, qi, lists>>

\* namespaces.Items on a nil pointer panics; net/http recovers and drops the
\* connection.
NamespacesPanic ==
    /\ pc = "marshal"
    /\ namespaces.isNilPointer
    /\ pc' = "panic"
    /\ UNCHANGED <<cluster, nilWhenEmpty, handler, qi, lists, namespaces, issued, failures, resp>>

NamespacesRespond ==
    /\ pc = "marshal"
    /\ ~namespaces.isNilPointer
    /\ LET body == [kind |-> "namespaces", doc |-> MarshalSlice("Namespaces", namespaces.Items)]
           r1 == HeaderSet(resp, "Access-Control-Allow-Origin", "*")
           r2 == HeaderAdd(r1, "Content-Type", "application/json")
       IN  resp' = Write(r2, body)
    /\ pc' = "done"
    /\ UNCHANGED <<cluster, nilWhenEmpty, handler, qi, lists, namespaces, issued, failures>>

(***************************************************************************)
(* routeStatus.  json.Marshal of the status struct (strings, a bool, an    *)
(* int) does not fail, so the http.Error branch is never taken.            *)
(***************************************************************************)
RouteStatus ==
    /\ pc = "idle"
    /\ handler' = "routeStatus"
    /\ \E hostnameKnown \in BOOLEAN :
        LET hostname == IF hostnameKnown THEN "kubeview-0" ELSE "hostname not available"
            body == [kind |-> "status", doc |-> [hostname |-> hostname]]
        IN  resp' = Write(HeaderAdd(resp, "Content-Type", "application/json"), body)
    /\ pc' = "done"
    /\ UNCHANGED <<cluster, nilWhenEmpty, qi, lists, namespaces, issued, failures>>

Next ==
    \/ ScrapeStart
    \/ QueryOk
    \/ QueryFail
    \/ ScrapeRespond
    \/ NamespacesStart
    \/ NamespacesListOk
    \/ NamespacesListFail
    \/ NamespacesPanic
    \/ NamespacesRespond
    \/ RouteStatus

Spec == Init /\ [][Next]_vars

(***************************************************************************)
(* Vocabulary of the properties.                                           *)
(***************************************************************************)
\* the handler has written the envelope
EnvelopeWritten == \E i \in DOMAIN resp.body : resp.body[i].kind = "scrapeData"

\* routeScrapeData has answered 200 with the envelope
ScrapeSucceeded ==
    /\ handler = "routeScrapeData"
    /\ pc = "done"
    /\ resp.code = 200
    /\ EnvelopeWritten

\* the JSON document of the response (where ScrapeSucceeded)
Envelope == resp.body[Len(resp.body)].doc

EnvelopeKeys ==
    {"pods", "services", "endpoints", "persistentvolumes", "persistentvolumeclaims",
     "deployments", "daemonsets", "replicasets", "statefulsets", "ingresses",
     "configmaps", "secrets"}

\* the name starts with sh.helm.release
StartsWithReleaseMarker(name) ==
    /\ Len(name) >= 15
    /\ \A i \in 1..15 : name[i] = HelmPrefix[i]

Survives(secret) == ~StartsWithReleaseMarker(secret.name)

\* the Secrets of the cluster that are not release Secrets, in the cluster's order
SurvivingSecrets == SelectSeq(cluster.Secrets, Survives)

\* "__VALUE REDACTED__"
ValueSentinel ==
    <<"_", "_", "V", "A", "L", "U", "E", " ", "R", "E", "D", "A", "C", "T", "E", "D", "_", "_">>

(***************************************************************************)
(* Reading of "certificate block" on the runs of a value: a run of five or *)
(* more dashes, BEGIN CERTIFICATE, dashes, a body without a dash, dashes,  *)
(* END CERTIFICATE, dashes; every marker takes the whole run of dashes     *)
(* next to it, and blocks are taken from the left without overlap.         *)
(***************************************************************************)
\* length of the first run of s: dashes only, or no dash
FirstRunLen(s) ==
    CHOOSE n \in 1..Len(s) :
        /\ \A j \in 1..n : (s[j] = "-") <=> (s[1] = "-")
        /\ (n = Len(s) \/ ((s[n + 1] = "-") <=> (s[1] # "-")))

RECURSIVE RunsOf(_)
RunsOf(s) ==
    IF s = <<>> THEN <<>>
    ELSE <<SubSeq(s, 1, FirstRunLen(s))>> \o RunsOf(SubSeq(s, FirstRunLen(s) + 1, Len(s)))

Upper(s) == [i \in DOMAIN s |-> Fold(s[i])]

IsMarkerDashes(run) == run[1] = "-" /\ Len(run) >= 5

\* word, white space, CERTIFICATE, in any case
IsMarkerWords(run, word) ==
    /\ Len(run) >= Len(word) + 1 + Len(WordCertificate)
    /\ Upper(SubSeq(run, 1, Len(word))) = word
    /\ Upper(SubSeq(run, Len(run) - Len(WordCertificate) + 1, Len(run))) = WordCertificate
    /\ \A j \in (Len(word) + 1)..(Len(run) - Len(WordCertificate)) : IsSpace(run[j])

BlockAt(runs, r) ==
    /\ r + 6 <= Len(runs)
    /\ IsMarkerDashes(runs[r])
    /\ IsMarkerWords(runs[r + 1], WordBegin)
    /\ IsMarkerDashes(runs[r + 2])
    /\ runs[r + 3][1] # "-"
    /\ IsMarkerDashes(runs[r + 4])
    /\ IsMarkerWords(runs[r + 5], WordEnd)
    /\ IsMarkerDashes(runs[r + 6])

RECURSIVE BlocksReplacedFrom(_, _)
BlocksReplacedFrom(runs, r) ==
    IF r > Len(runs) THEN <<>>
    ELSE IF BlockAt(runs, r) THEN CertSentinel \o BlocksReplacedFrom(runs, r + 7)
    ELSE runs[r] \o BlocksReplacedFrom(runs, r + 1)

\* the value with each block replaced by the sentinel, the rest as it is
BlocksReplaced(value) == BlocksReplacedFrom(RunsOf(value), 1)

HasBlock(value) == \E r \in DOMAIN RunsOf(value) : BlockAt(RunsOf(value), r)

(***************************************************************************)
(* C1: in a successful routeScrapeData response every value of the data    *)
(* and stringData of every Secret is the fixed sentinel, never the         *)
(* original value.  The code replaces certificate blocks only.             *)
(***************************************************************************)
C1_SecretValuesAreSentinel ==
    ScrapeSucceeded =>
        \A i \in DOMAIN Envelope["secrets"].array :
            LET secret == Envelope["secrets"].array[i]
            IN  /\ \A key \in DOMAIN secret.data :
                    secret.data[key].b64 \in {ValueSentinel, CertSentinel}
                /\ \A key \in DOMAIN secret.stringData :
                    secret.stringData[key] \in {ValueSentinel, CertSentinel}

(***************************************************************************)
(* C2: the secrets list of a successful response holds no Secret whose     *)
(* name starts with sh.helm.release and holds every Secret of the source   *)
(* whose name does not.                                                    *)
(***************************************************************************)
C2_ReleaseSecretsHidden ==
    ScrapeSucceeded =>
        LET out == Envelope["secrets"].array
            src == cluster.Secrets
        IN  /\ \A i \in DOMAIN out : ~StartsWithReleaseMarker(out[i].name)
            /\ \A j \in DOMAIN src :
                ~StartsWithReleaseMarker(src[j].name) =>
                    \E i \in DOMAIN out :
                        /\ out[i].name = src[j].name
                        /\ DOMAIN out[i].data = DOMAIN src[j].data

C2_Witness ==
    /\ ScrapeSucceeded
    /\ Len(cluster.Secrets) = 2
    /\ cluster.Secrets[1].name = NameHelmRelease
    /\ cluster.Secrets[2].name = NameDbCreds
    /\ Len(Envelope["secrets"].array) = 1

(***************************************************************************)
(* C3: when a list query of routeScrapeData has failed the response is a   *)
(* 500 and no envelope is written; an envelope is written only when all    *)
(* twelve queries succeeded.                                               *)
(***************************************************************************)
C3_NoPartialEnvelope ==
    handler = "routeScrapeData" =>
        /\ failures # <<>> => (resp.code = 500 /\ ~EnvelopeWritten)
        /\ EnvelopeWritten => (failures = <<>> /\ issued = QueryOrder)

C3_Witness ==
    /\ handler = "routeScrapeData"
    /\ pc = "done"
    /\ failures # <<>>
    /\ Len(issued) = 7
    /\ resp.code = 500

(***************************************************************************)
(* C4: sanitizing is idempotent: filtering and redacting the sanitized     *)
(* lists again changes nothing.  A block nested between a BEGIN and an END *)
(* marker leaves a value that the pattern matches again.                   *)
(***************************************************************************)
C4_SanitizerIdempotent ==
    ScrapeSucceeded => ScrapeResult(ScrapeResult(lists)) = ScrapeResult(lists)

C6_EveryKeyIsAnArray ==
    ScrapeSucceeded =>
        /\ DOMAIN Envelope = EnvelopeKeys
        /\ \A key \in EnvelopeKeys : ~Envelope[key].null

(***************************************************************************)
(* C7: in a successful response each list holds the objects in the order   *)
(* of the source: the same objects at the same positions for the kinds     *)
(* other than Secret, the surviving Secrets in their relative order.       *)
(***************************************************************************)
SecretIdentity(secret) == <<secret.name, DOMAIN secret.data, DOMAIN secret.annotations>>

C7_SourceOrderKept ==
    ScrapeSucceeded =>
        /\ \A k \in OpaqueKinds : Envelope[JsonTag[k]].array = cluster[k]
        /\ [i \in DOMAIN Envelope["configmaps"].array |->
                Envelope["configmaps"].array[i].name]
            = [i \in DOMAIN cluster.ConfigMaps |-> cluster.ConfigMaps[i].name]
        /\ [i \in DOMAIN Envelope["secrets"].array |->
                SecretIdentity(Envelope["secrets"].array[i])]
            = [i \in DOMAIN SurvivingSecrets |-> SecretIdentity(SurvivingSecrets[i])]

C7_Witness ==
    /\ ScrapeSucceeded
    /\ Envelope["pods"].array = <<"o2", "o1">>
    /\ Len(cluster.Secrets) = 2
    /\ cluster.Secrets[1].name = NameInfix
    /\ cluster.Secrets[2].name = NameDbCreds
    /\ Len(Envelope["secrets"].array) = 2
    /\ Envelope["secrets"].array[1].name = NameInfix

(***************************************************************************)
(* C8: once a list query of routeScrapeData has failed no further query is *)
(* issued, no kind is queried twice, and the message written to the caller *)
(* is that of the first failed query.                                      *)
(***************************************************************************)
C8_FailFast ==
    handler = "routeScrapeData" =>
        /\ \A i, j \in DOMAIN issued : issued[i] = issued[j] => i = j
        /\ failures # <<>> =>
            /\ Len(failures) = 1
            /\ issued[Len(issued)] = failures[1].query
            /\ pc = "done"
            /\ resp.body = << [kind |-> "error", doc |-> failures[1]] >>

C8_Witness ==
    /\ handler = "routeScrapeData"
    /\ failures # <<>>
    /\ Len(issued) = 3
    /\ issued[3] = "Endpoints"
    /\ resp.body[1].doc = ApiError("Endpoints", "timeout")

(***************************************************************************)
(* C9: once a handler has reported an error with http.Error it makes no    *)
(* further call on the response: no header, no body.  routeGetNamespaces   *)
(* does not return after http.Error.                                       *)
(***************************************************************************)
C9_ErrorEndsResponse ==
    \A i \in DOMAIN resp.calls : resp.calls[i] = "Error" => i = Len(resp.calls)

(***************************************************************************)
(* C10: redaction changes values only: the ConfigMaps and the surviving    *)
(* Secrets of a successful response are as many as in the source and in    *)
(* the same order, with the same name, namespace and keys of data,         *)
(* stringData or binaryData, and annotations, and the values written are   *)
(* the redacted ones.                                                      *)
(***************************************************************************)
C10_RedactionKeepsStructure ==
    ScrapeSucceeded =>
        LET cmOut == Envelope["configmaps"].array
            cmSrc == cluster.ConfigMaps
            sOut == Envelope["secrets"].array
            sSrc == SurvivingSecrets
        IN  /\ Len(cmOut) = Len(cmSrc)
            /\ \A i \in DOMAIN cmSrc :
                /\ cmOut[i].name = cmSrc[i].name
                /\ cmOut[i].namespace = cmSrc[i].namespace
                /\ DOMAIN cmOut[i].data = DOMAIN cmSrc[i].data
                /\ DOMAIN cmOut[i].binaryData = DOMAIN cmSrc[i].binaryData
                /\ \A key \in DOMAIN cmSrc[i].data :
                    cmOut[i].data[key] = redactCertificates(cmSrc[i].data[key])
                /\ \A key \in DOMAIN cmSrc[i].binaryData :
                    cmOut[i].binaryData[key].b64 = redactCertificates(cmSrc[i].binaryData[key])
            /\ Len(sOut) = Len(sSrc)
            /\ \A i \in DOMAIN sSrc :
                /\ sOut[i].name = sSrc[i].name
                /\ sOut[i].namespace = sSrc[i].namespace
                /\ DOMAIN sOut[i].data = DOMAIN sSrc[i].data
                /\ DOMAIN sOut[i].stringData = DOMAIN sSrc[i].stringData
                /\ DOMAIN sOut[i].annotations = DOMAIN sSrc[i].annotations
                /\ \A key \in DOMAIN sSrc[i].data :
                    sOut[i].data[key].b64 = redactCertificates(sSrc[i].data[key])
                /\ \A key \in DOMAIN sSrc[i].stringData :
                    sOut[i].stringData[key] = redactCertificates(sSrc[i].stringData[key])
                /\ \A key \in DOMAIN sSrc[i].annotations :
                    sOut[i].annotations[key] = redactCertificates(sSrc[i].annotations[key])

C10_Witness ==
    /\ ScrapeSucceeded
    /\ Len(cluster.ConfigMaps) = 1
    /\ Len(cluster.Secrets) = 1
    /\ cluster.ConfigMaps[1].binaryData["bundle"] = TextPiece \o CertBare \o TextPiece
    /\ cluster.Secrets[1].data["password"] = TextPiece \o CertBare \o TextPiece
    /\ Envelope["configmaps"].array[1].binaryData["bundle"].b64
            = TextPiece \o CertSentinel \o TextPiece
    /\ Envelope["configmaps"].array[1].data["ca.crt"] # cluster.ConfigMaps[1].data["ca.crt"]
    /\ Envelope["secrets"].array[1].data["password"].b64
            = TextPiece \o CertSentinel \o TextPiece
    /\ Envelope["secrets"].array[1].name = NameDbCreds

====
